---- MODULE Spec2Model ----
(***************************************************************************)
(* Model of user_sync/engine/sign.py: SignSyncEngine, the engine that      *)
(* reconciles directory users into the Sign organizations.                 *)
(*                                                                         *)
(* Strings whose case or characters matter (emails, group names, user     *)
(* names, domains, identity types) are sequences of one-character strings,*)
(* so that lower(), strip(), find('@') and concatenation are computed.     *)
(* Python's None is the value None below; it differs from every string.    *)
(***************************************************************************)
EXTENDS Integers, Sequences, FiniteSets, TLC

VARIABLES test_mode, create_new_users, deactivate_sign_only_users,
          directory_user_by_user_key, target,
          pc, org_idx, loop_idx, new_groups, sign_users,
          calls, steps, passes, target0, loaded, runs, failures, prev_run,
          org_order, key_probe

vars == <<test_mode, create_new_users, deactivate_sign_only_users,
          directory_user_by_user_key, target,
          pc, org_idx, loop_idx, new_groups, sign_users,
          calls, steps, passes, target0, loaded, runs, failures, prev_run,
          org_order, key_probe>>

\* ------------------------------------------------------------------ bounds
MaxRuns == 2
MaxFailures == 1

\* ----------------------------------------------------------------- strings
None == <<"<None>">>

SeqToSet(s) == {s[i] : i \in 1..Len(s)}

UpperChars == <<"A","B","C","D","E","F","G","H","I","J","K","L","M",
                "N","O","P","Q","R","S","T","U","V","W","X","Y","Z">>
LowerChars == <<"a","b","c","d","e","f","g","h","i","j","k","l","m",
                "n","o","p","q","r","s","t","u","v","w","x","y","z">>

UpperToLower ==
    [c \in SeqToSet(UpperChars) |-> LowerChars[CHOOSE i \in 1..26 : UpperChars[i] = c]]

LowerChar(c) == IF c \in DOMAIN UpperToLower THEN UpperToLower[c] ELSE c

\* str.lower()
lower(s) == [i \in 1..Len(s) |-> LowerChar(s[i])]

\* str.find(c) >= 0
contains(s, c) == \E i \in 1..Len(s) : s[i] = c

RECURSIVE lstrip(_)
lstrip(s) == IF s # <<>> /\ Head(s) = " " THEN lstrip(Tail(s)) ELSE s

RECURSIVE rstrip(_)
rstrip(s) ==
    IF s # <<>> /\ s[Len(s)] = " " THEN rstrip(SubSeq(s, 1, Len(s) - 1)) ELSE s

\* str.strip()
strip(s) == rstrip(lstrip(s))

\* Python truthiness of an optional string
truthy(s) == s # None /\ s # <<>>

\* ------------------------------------------------------------ string data
s_legal     == <<"l","e","g","a","l">>
s_Legal     == <<"L","e","g","a","l">>
s_finance   == <<"f","i","n","a","n","c","e">>
s_Finance   == <<"F","i","n","a","n","c","e">>
s_sales     == <<"s","a","l","e","s">>
s_Sales     == <<"S","a","l","e","s">>
s_ent       == <<"e","n","t">>
s_Ent       == <<"E","n","t">>
s_everyone  == <<"e","v","e","r","y","o","n","e">>

e_a         == <<"a","@","x">>
e_A         == <<"A","@","x">>
e_b         == <<"b","@","x">>
e_B         == <<"B","@","x">>
e_c         == <<"c","@","x">>
e_d         == <<"d","@","x">>
e_z         == <<"z","@","x">>

u_bob       == <<"b","o","b">>
d_x         == <<"x">>

federatedID  == <<"f","e","d","e","r","a","t","e","d","I","D">>
enterpriseID == <<"e","n","t","e","r","p","r","i","s","e","I","D">>
adobeID      == <<"a","d","o","b","e","I","D">>

\* SignSyncEngine.DEFAULT_GROUP_NAME
DEFAULT_GROUP_NAME == <<"d","e","f","a","u","l","t"," ","g","r","o","u","p">>

\* ----------------------------------------------------------- configuration
\* AdobeGroup.create(g): the parsed group reference "umapi_name::group_name"
AdobeGroup(org, name) == [umapi_name |-> org, group_name |-> name]

\* sign_orgs (the keys of self.connectors)
sign_orgs == <<"org1", "org2">>
OrgNames == SeqToSet(sign_orgs)

\* the orders in which the configuration can list the organizations
OrgOrders ==
    {o \in [1..Len(sign_orgs) -> OrgNames] : \A i, j \in 1..Len(sign_orgs) : o[i] = o[j] => i = j}

cfg_user_groups ==
    << AdobeGroup("org1", s_Legal), AdobeGroup("org1", s_Finance),
       AdobeGroup("org2", s_Sales) >>

cfg_entitlement_groups ==
    << AdobeGroup("org1", s_Ent), AdobeGroup("org2", s_everyone) >>

cfg_identity_types == <<federatedID, enterpriseID>>

cfg_admin_roles ==
    << [sign_role |-> "ACCOUNT_ADMIN", adobe_groups |-> <<AdobeGroup("org1", s_Legal)>>],
       [sign_role |-> "GROUP_ADMIN",
        adobe_groups |-> <<AdobeGroup("org1", s_Legal), AdobeGroup("org1", s_Finance),
                           AdobeGroup("org2", s_Sales)>>],
       [sign_role |-> "API_USER", adobe_groups |-> <<>>] >>

\* default_options['new_account_type']
new_account_type == federatedID

\* ------------------------------------------------------ configuration parse
RECURSIVE groupify_org(_, _)
groupify_org(groups, org) ==
    IF groups = <<>> THEN <<>>
    ELSE LET g == Head(groups)
             rest == groupify_org(Tail(groups), org)
         IN IF g.umapi_name = org THEN <<lower(g.group_name)>> \o rest ELSE rest

\* _groupify: a defaultdict(list), organization -> lower-cased names in order
_groupify(groups) == [org \in OrgNames |-> groupify_org(groups, org)]

user_groups == _groupify(cfg_user_groups)
entitlement_groups == _groupify(cfg_entitlement_groups)
identity_types == cfg_identity_types

\* the (umapi_name, group_name, sign_role) triples _admin_role_mapping adds
AdminRoleCells(mappings) ==
    UNION { { <<g.umapi_name, lower(g.group_name), mappings[i].sign_role>> :
                g \in SeqToSet(mappings[i].adobe_groups) } : i \in 1..Len(mappings) }

\* _admin_role_mapping: umapi_name -> (lower-cased group -> set of roles);
\* an organization or a group that no entry names is absent from the mapping
_admin_role_mapping(mappings) ==
    LET cells == AdminRoleCells(mappings)
        orgs == {c[1] : c \in cells}
    IN [org \in orgs |->
          [g \in {c[2] : c \in {d \in cells : d[1] = org}} |->
             {c[3] : c \in {d \in cells : d[1] = org /\ d[2] = g}}]]

admin_roles == _admin_role_mapping(cfg_admin_roles)

\* self.admin_roles.get(org_name, {})
admin_roles_get(org) ==
    IF org \in DOMAIN admin_roles THEN admin_roles[org] ELSE << >>

\* ------------------------------------------------------------ pure methods
RoleRank(r) ==
    CASE r = "ACCOUNT_ADMIN" -> 1
      [] r = "API_USER"      -> 2
      [] r = "GROUP_ADMIN"   -> 3
      [] r = "NORMAL_USER"   -> 4
      [] OTHER               -> 5

RECURSIVE insert_sorted(_, _)
insert_sorted(r, s) ==
    IF s = <<>> THEN <<r>>
    ELSE IF RoleRank(r) <= RoleRank(Head(s)) THEN <<r>> \o s
    ELSE <<Head(s)>> \o insert_sorted(r, Tail(s))

\* sorted(list of role names)
RECURSIVE sorted(_)
sorted(s) == IF s = <<>> THEN <<>> ELSE insert_sorted(Head(s), sorted(Tail(s)))

\* a roles value of a Sign user: a single string or a list of strings
RolesStr(r)   == [is_str |-> TRUE,  str |-> r,  list |-> <<>>]
RolesList(rs) == [is_str |-> FALSE, str |-> "", list |-> rs]

\* the comparison of line 113 without sorting either side
roles_match_ordered(resolved_roles, sign_roles) ==
    LET sr == IF sign_roles.is_str THEN <<sign_roles.str>> ELSE sign_roles.list
    IN resolved_roles = sr

roles_match(resolved_roles, sign_roles) ==
    LET sr == IF sign_roles.is_str THEN <<sign_roles.str>> ELSE sign_roles.list
    IN sorted(resolved_roles) = sorted(sr)

\* every list that list(a set) can be
ListsOf(S) ==
    { s \in [1..Cardinality(S) -> S] : \A i, j \in 1..Cardinality(S) : s[i] = s[j] => i = j }

\* the loop of resolve_new_roles without lower-casing the group name (line 119)
resolved_role_set_exact(umapi_user, role_mapping) ==
    UNION { role_mapping[g] : g \in {h \in umapi_user.groups : h \in DOMAIN role_mapping} }

\* the set the loop of resolve_new_roles accumulates
resolved_role_set(umapi_user, role_mapping) ==
    UNION { role_mapping[lower(g)] :
              g \in {h \in umapi_user.groups : lower(h) \in DOMAIN role_mapping} }

\* resolve_new_roles: the lists it can return (a set is listed in any order)
resolve_new_roles(umapi_user, role_mapping) ==
    LET roles == resolved_role_set(umapi_user, role_mapping)
    IN IF roles # {} THEN ListsOf(roles) ELSE { <<"NORMAL_USER">> }

should_sync(umapi_user, org_name) ==
    /\ (umapi_user.groups \cap SeqToSet(entitlement_groups[org_name])) # {}
    /\ umapi_user.type \in SeqToSet(identity_types)

\* the first index of user_groups[org_name] whose group is in the user's groups
RECURSIVE first_in(_, _)
first_in(groups, user_group_set) ==
    IF groups = <<>> THEN None
    ELSE IF Head(groups) \in user_group_set THEN Head(groups)
    ELSE first_in(Tail(groups), user_group_set)

\* update_sign_users, lines 89-97
assignment_group_of(directory_user, org_name) ==
    LET g == first_in(user_groups[org_name], directory_user.groups)
    IN IF g = None THEN DEFAULT_GROUP_NAME ELSE g

\* helper.normalize_string
normalize_string(s) == IF s = None THEN None ELSE lower(strip(s))

\* identity_type.parse_identity_type
parse_identity_type(t) ==
    IF t = None THEN None
    ELSE LET m == {k \in {adobeID, enterpriseID, federatedID} : lower(k) = lower(t)}
         IN IF m = {} THEN None ELSE CHOOSE k \in m : TRUE

\* get_user_key without line 235: the domain is kept for an email-shaped username
get_user_key_keep_domain(id_type_in, username_in, domain_in, email_in) ==
    LET id_type  == parse_identity_type(id_type_in)
        email    == IF truthy(email_in) THEN normalize_string(email_in) ELSE None
        nu       == normalize_string(username_in)
        username == IF truthy(nu) THEN nu ELSE email
        domain   == normalize_string(domain_in)
    IN IF ~truthy(id_type) THEN None
       ELSE IF ~truthy(username) THEN None
       ELSE IF ~contains(username, "@") /\ ~truthy(domain) THEN None
       ELSE id_type \o <<",">> \o username \o <<",">> \o (IF truthy(domain) THEN domain ELSE <<>>)

get_user_key(id_type_in, username_in, domain_in, email_in) ==
    LET id_type  == parse_identity_type(id_type_in)
        email    == IF truthy(email_in) THEN normalize_string(email_in) ELSE None
        nu       == normalize_string(username_in)
        username == IF truthy(nu) THEN nu ELSE email
        domain   == normalize_string(domain_in)
    IN IF ~truthy(id_type) THEN None
       ELSE IF ~truthy(username) THEN None
       ELSE IF contains(username, "@") THEN id_type \o <<",">> \o username \o <<",">>
       ELSE IF ~truthy(domain) THEN None
       ELSE id_type \o <<",">> \o username \o <<",">> \o domain

get_identity_type_from_directory_user(directory_user) ==
    IF directory_user.identity_type = None THEN new_account_type
    ELSE directory_user.identity_type

get_directory_user_key(directory_user) ==
    get_user_key(get_identity_type_from_directory_user(directory_user),
                 directory_user.username, directory_user.domain, directory_user.email)

\* an insertion-ordered dict as a sequence of [key, value]
dict_keys(d) == {d[i].key : i \in 1..Len(d)}
dict_get(d, k) ==
    IF k \in dict_keys(d) THEN d[CHOOSE i \in 1..Len(d) : d[i].key = k].value ELSE None
dict_set(d, k, v) ==
    IF k \in dict_keys(d)
    THEN [i \in 1..Len(d) |-> IF d[i].key = k THEN [key |-> k, value |-> v] ELSE d[i]]
    ELSE Append(d, [key |-> k, value |-> v])

\* the loop of lines 190-202 without the 'continue' of line 194
RECURSIVE read_desired_user_groups_keep(_, _)
read_desired_user_groups_keep(by_key, directory_users) ==
    IF directory_users = <<>> THEN by_key
    ELSE read_desired_user_groups_keep(
             dict_set(by_key, get_directory_user_key(Head(directory_users)), Head(directory_users)),
             Tail(directory_users))

\* read_desired_user_groups, lines 190-202, over the loaded directory users
RECURSIVE read_desired_user_groups(_, _)
read_desired_user_groups(by_key, directory_users) ==
    IF directory_users = <<>> THEN by_key
    ELSE LET directory_user == Head(directory_users)
             user_key == get_directory_user_key(directory_user)
         IN IF ~truthy(user_key)
            THEN read_desired_user_groups(by_key, Tail(directory_users))
            ELSE read_desired_user_groups(dict_set(by_key, user_key, directory_user),
                                          Tail(directory_users))

\* ---------------------------------------------------------- directory data
DirectoryUser(identity_type, type, username, domain, email, firstname, lastname, groups) ==
    [identity_type |-> identity_type, type |-> type, username |-> username,
     domain |-> domain, email |-> email, firstname |-> firstname,
     lastname |-> lastname, groups |-> groups]

\* in scope of both organizations; first candidate of org1, no candidate of org2
U1 == DirectoryUser(federatedID, federatedID, e_a, None, e_a, "Ann", "Lee",
                    {s_legal, s_ent, s_everyone})
\* group names and email in the directory's own casing
U2 == DirectoryUser(None, federatedID, e_B, d_x, e_B, "Bea", "Ray",
                    {s_Legal, s_finance, s_ent, s_sales, s_everyone})
\* entitlement group in the directory's own casing
U3 == DirectoryUser(federatedID, federatedID, e_c, None, e_c, "Cy", "Orr",
                    {s_Ent, s_legal})
\* identity type outside the allow-list
U4 == DirectoryUser(adobeID, adobeID, e_d, None, e_d, "Di", "Fox", {s_ent, s_legal})
\* same email as U1 under another user key
U5 == DirectoryUser(enterpriseID, enterpriseID, u_bob, d_x, e_a, "Bob", "Lee",
                    {s_ent, s_finance, s_everyone})
\* no '@' in the username and no domain: no user key
U6 == DirectoryUser(federatedID, federatedID, u_bob, None, e_b, "Bo", "Nix", {s_ent})
\* no candidate group and no mapped role in org1
U7 == DirectoryUser(federatedID, federatedID, e_z, None, e_z, "Zoe", "Kim",
                    {s_ent, s_Sales})

\* what directory_connector.load_users_and_groups can return
Snapshots == { <<U1, U2>>, <<U1, U5>>, <<U3, U4, U6, U7>> }

\* -------------------------------------------------------------- Sign data
SignUser(email, firstName, lastName, group, roles, status) ==
    [userId |-> <<"#">> \o email, email |-> email, firstName |-> firstName,
     lastName |-> lastName, group |-> group, roles |-> roles, userStatus |-> status]

Rosters1 ==
    { << SignUser(e_a, "A", "Lee", s_Legal, RolesList(<<"GROUP_ADMIN", "ACCOUNT_ADMIN">>), "ACTIVE"),
         SignUser(e_b, "B", "Ray", s_finance, RolesStr("NORMAL_USER"), "ACTIVE"),
         SignUser(e_c, "C", "Orr", s_legal, RolesList(<<"NORMAL_USER">>), "ACTIVE") >>,
      << SignUser(e_a, "A", "Lee", s_finance, RolesStr("GROUP_ADMIN"), "ACTIVE"),
         SignUser(e_z, "Z", "Kim", s_finance, RolesList(<<"NORMAL_USER">>), "INACTIVE"),
         SignUser(e_B, "B", "Ray", s_finance, RolesList(<<"ACCOUNT_ADMIN", "GROUP_ADMIN">>), "ACTIVE") >> }

Rosters2 ==
    { << >>,
      << SignUser(e_a, "A", "Lee", DEFAULT_GROUP_NAME, RolesStr("NORMAL_USER"), "ACTIVE"),
         SignUser(e_d, "D", "Fox", DEFAULT_GROUP_NAME, RolesList(<<"GROUP_ADMIN">>), "ACTIVE") >> }

\* the group names a roster uses, and the default group every account has
GroupsOf(roster) == {roster[i].group : i \in 1..Len(roster)} \cup {DEFAULT_GROUP_NAME}

InitTargets ==
    { [org \in OrgNames |->
         IF org = "org1" THEN [groups |-> GroupsOf(r1), users |-> r1]
                         ELSE [groups |-> GroupsOf(r2), users |-> r2]] :
      <<r1, r2>> \in Rosters1 \X Rosters2 }

\* ----------------------------------------------------------- SignConnector
\* One connector per organization over that organization's account,
\* t = [groups |-> set of group names, users |-> list of Sign users].
sign_groups(t) == t.groups

get_users(t) == [i \in 1..Len(t.users) |-> [key |-> t.users[i].email, value |-> t.users[i]]]

has_group(t, name) == name \in t.groups
get_group(t, name) == [gid |-> name]

create_group(t, name) == [t EXCEPT !.groups = @ \cup {name}]

has_email(t, email) == \E i \in 1..Len(t.users) : t.users[i].email = email

insert_user(t, data) ==
    [t EXCEPT !.users = Append(@, SignUser(data.email, data.firstName, data.lastName,
                                           data.groupId.gid, RolesList(data.roles), "ACTIVE"))]

update_user(t, userId, data) ==
    [t EXCEPT !.users = [i \in 1..Len(@) |->
        IF @[i].userId = userId
        THEN [@[i] EXCEPT !.email = data.email, !.firstName = data.firstName,
                          !.lastName = data.lastName, !.group = data.groupId.gid,
                          !.roles = RolesList(data.roles),
                          !.userStatus = IF "userStatus" \in DOMAIN data
                                         THEN data.userStatus ELSE @]
        ELSE @[i]]]

deactivate_user(t, userId, data) ==
    [t EXCEPT !.users = [i \in 1..Len(@) |->
        IF @[i].userId = userId THEN [@[i] EXCEPT !.userStatus = data.userStatus] ELSE @[i]]]

\* ------------------------------------------------------- engine, per user
\* the profile of lines 248-254 with the names of the directory record
update_data_directory_names(sign_user, directory_user, group_id, user_roles) ==
    [email |-> sign_user.email, firstName |-> directory_user.firstname, groupId |-> group_id,
     lastName |-> directory_user.lastname, roles |-> user_roles]

\* the profile of lines 248-254 with a status added
update_data_active(sign_user, directory_user, group_id, user_roles) ==
    [email |-> sign_user.email, firstName |-> sign_user.firstName, groupId |-> group_id,
     lastName |-> sign_user.lastName, roles |-> user_roles, userStatus |-> "ACTIVE"]

\* update_existing_users, lines 248-254
update_data(sign_user, directory_user, group_id, user_roles) ==
    [email |-> sign_user.email, firstName |-> sign_user.firstName, groupId |-> group_id,
     lastName |-> sign_user.lastName, roles |-> user_roles]

\* update_existing_users, line 255: the update is skipped
no_updates_needed(sign_user, assignment_group, user_roles) ==
    /\ lower(sign_user.group) = assignment_group
    /\ roles_match(user_roles, sign_user.roles)

\* insert_new_users, lines 275-281
insert_data(directory_user, user_roles, group_id) ==
    [email |-> directory_user.email, firstName |-> directory_user.firstname,
     groupId |-> group_id, lastName |-> directory_user.lastname, roles |-> user_roles]

\* line 102 without the create_new_users flag
creates_user_always(create_flag, has_sign_user) == ~has_sign_user

\* update_sign_users, line 102
creates_user(create_flag, has_sign_user) == create_flag = TRUE /\ ~has_sign_user

\* run() going on to the organizations after a failed directory read
directory_read_aborts_never(ok) == FALSE

\* run(), lines 70-72: an error of the directory read leaves run()
directory_read_aborts(ok) == ~ok

\* the new groups of line 75 without subtracting the existing ones
groups_to_create_all(candidates, existing) == SeqToSet(candidates)

\* run(), line 75
groups_to_create(candidates, existing) == SeqToSet(candidates) \ existing

\* run() without the test at line 67
in_test_mode_never(flag) == FALSE

\* run(), line 67
in_test_mode(flag) == flag

\* run(), line 79
sweep_enabled(flag) == flag

\* deactivate_user, lines 300-302
deactivation_data == [userStatus |-> "INACTIVE"]

\* the sweep deciding on the roster the create/update pass retained
sweep_roster_retained(t, retained) == retained

\* deactivate_sign_users, line 291: the sweep reads its own listing
sweep_roster(t, retained) == get_users(t)

\* the list of lines 292-294 without lower-casing the directory emails
director_users_emails_raw(directory_users) ==
    [i \in 1..Len(directory_users) |-> directory_users[i].value.email]

\* deactivate_sign_users, lines 292-294
director_users_emails(directory_users) ==
    [i \in 1..Len(directory_users) |-> lower(directory_users[i].value.email)]

\* the comparison of line 296 without lower-casing the Sign email
is_sign_only_exact(sign_user, emails) == sign_user.email \notin SeqToSet(emails)

\* deactivate_sign_users, line 296
is_sign_only(sign_user, emails) == lower(sign_user.email) \notin SeqToSet(emails)

\* ------------------------------------------------------------- bookkeeping
Call(org, op, id, data, ok, step) ==
    [org |-> org, op |-> op, id |-> id, data |-> data, ok |-> ok, step |-> step]

NoData == [none |-> TRUE]

Step(org, phase, user, sign_user, raised) ==
    [org |-> org, phase |-> phase, user |-> user, sign_user |-> sign_user, raised |-> raised]

NoPasses ==
    [org \in OrgNames |-> [update_read |-> <<>>, update_done |-> FALSE,
                           sweep_read |-> <<>>, sweep_done |-> FALSE,
                           groups_read |-> <<>>, provisioned |-> FALSE]]

\* a connector call may fail while the failure budget lasts
MayFail == failures < MaxFailures

Outcomes == IF MayFail THEN {TRUE, FALSE} ELSE {TRUE}

org_name == org_order[org_idx]

Ended == pc \in {"idle", "returned", "raised"}

\* the calls of the run so far that failed
FailedCalls == {i \in 1..Len(calls) : ~calls[i].ok}

cfg == <<test_mode, create_new_users, deactivate_sign_only_users, org_order, key_probe>>
locals == <<org_idx, loop_idx, new_groups, sign_users>>

\* no call of get_user_key observed
NoProbe == [id_type |-> None, username |-> None, domain |-> None, email |-> None,
            called |-> FALSE, key |-> None]

\* -------------------------------------------------------------------- Init
Init ==
    /\ test_mode \in BOOLEAN
    /\ create_new_users \in BOOLEAN
    /\ deactivate_sign_only_users \in BOOLEAN
    /\ directory_user_by_user_key = <<>>
    /\ target \in InitTargets
    /\ pc = "idle"
    /\ org_idx = 1
    /\ loop_idx = 1
    /\ new_groups = {}
    /\ sign_users = <<>>
    /\ calls = <<>>
    /\ steps = <<>>
    /\ passes = NoPasses
    /\ target0 = target
    /\ loaded = <<>>
    /\ runs = 0
    /\ failures = 0
    /\ prev_run = [ended |-> "none", loaded |-> <<>>, clean |-> FALSE]
    /\ org_order \in OrgOrders
    /\ key_probe = NoProbe

\* ----------------------------------------------------------------- actions
\* run(), lines 67-73: test mode, the directory read, the first organization
Run ==
    /\ Ended
    /\ runs < MaxRuns
    /\ \E directory_users \in Snapshots, ok \in Outcomes :
        /\ loaded' = directory_users
        /\ runs' = runs + 1
        /\ prev_run' = [ended |-> pc, loaded |-> loaded,
                        clean |-> pc = "returned" /\ FailedCalls = {}]
        /\ calls' = IF in_test_mode(test_mode) THEN <<>>
                    ELSE <<Call("directory", "load_users_and_groups", <<>>, NoData, ok, 0)>>
        /\ steps' = <<>>
        /\ passes' = NoPasses
        /\ target0' = target
        /\ org_idx' = 1
        /\ loop_idx' = 1
        /\ new_groups' = {}
        /\ sign_users' = <<>>
        /\ IF in_test_mode(test_mode)
           THEN /\ pc' = "returned"
                /\ UNCHANGED <<directory_user_by_user_key, failures>>
           ELSE IF directory_read_aborts(ok)
           THEN /\ pc' = "raised"
                /\ failures' = failures + (IF ok THEN 0 ELSE 1)
                /\ UNCHANGED directory_user_by_user_key
           ELSE /\ directory_user_by_user_key' =
                      read_desired_user_groups(directory_user_by_user_key,
                                               IF ok THEN directory_users ELSE <<>>)
                /\ pc' = "sign_groups"
                /\ failures' = failures + (IF ok THEN 0 ELSE 1)
    /\ UNCHANGED <<cfg, target>>

\* run(), line 75: list the groups of the organization, find the new ones
SignGroups ==
    /\ pc = "sign_groups"
    /\ \E ok \in Outcomes :
        /\ calls' = Append(calls, Call(org_name, "sign_groups", <<>>, NoData, ok, 0))
        /\ IF ok
           THEN /\ new_groups' = groups_to_create(user_groups[org_name], sign_groups(target[org_name]))
                /\ passes' = [passes EXCEPT ![org_name].groups_read = <<sign_groups(target[org_name])>>,
                                            ![org_name].provisioned = (new_groups' = {})]
                /\ pc' = IF new_groups' = {} THEN "update_read" ELSE "create_group"
                /\ UNCHANGED failures
           ELSE /\ pc' = "raised"
                /\ failures' = failures + 1
                /\ UNCHANGED <<new_groups, passes>>
    /\ UNCHANGED <<cfg, directory_user_by_user_key, target, org_idx, loop_idx, sign_users,
                   steps, target0, loaded, runs, prev_run>>

\* run(), lines 75-77: create one of the new groups (a set is walked in any order)
CreateGroup ==
    /\ pc = "create_group"
    /\ \E new_group \in new_groups, ok \in Outcomes :
        /\ calls' = Append(calls, Call(org_name, "create_group", new_group, NoData, ok, 0))
        /\ IF ok
           THEN /\ target' = [target EXCEPT ![org_name] = create_group(@, new_group)]
                /\ new_groups' = new_groups \ {new_group}
                /\ passes' = [passes EXCEPT ![org_name].provisioned = (new_groups' = {})]
                /\ pc' = IF new_groups' = {} THEN "update_read" ELSE "create_group"
                /\ UNCHANGED failures
           ELSE /\ pc' = "raised"
                /\ failures' = failures + 1
                /\ UNCHANGED <<target, new_groups, passes>>
    /\ UNCHANGED <<cfg, directory_user_by_user_key, org_idx, loop_idx, sign_users,
                   steps, target0, loaded, runs, prev_run>>

\* update_sign_users, line 83
UpdateRead ==
    /\ pc = "update_read"
    /\ \E ok \in Outcomes :
        /\ calls' = Append(calls, Call(org_name, "get_users", <<>>, NoData, ok, 0))
        /\ IF ok
           THEN /\ sign_users' = get_users(target[org_name])
                /\ passes' = [passes EXCEPT ![org_name].update_read = <<get_users(target[org_name])>>]
                /\ loop_idx' = 1
                /\ pc' = "update_loop"
                /\ UNCHANGED failures
           ELSE /\ pc' = "raised"
                /\ failures' = failures + 1
                /\ UNCHANGED <<sign_users, passes, loop_idx>>
    /\ UNCHANGED <<cfg, directory_user_by_user_key, target, org_idx, new_groups,
                   steps, target0, loaded, runs, prev_run>>

\* the outcomes of the connector calls of one pass of the loop of update_sign_users
UpdateOutcomes == IF MayFail THEN {"ok", "get_group", "user_op"} ELSE {"ok"}

\* update_sign_users, lines 84-107, with insert_new_users and update_existing_users:
\* one directory user
UpdateUser ==
    /\ pc = "update_loop"
    /\ loop_idx <= Len(directory_user_by_user_key)
    /\ LET directory_user == directory_user_by_user_key[loop_idx].value
           has_sign_user == directory_user.email \in dict_keys(sign_users)
           sign_user == dict_get(sign_users, directory_user.email)
           t == target[org_name]
           n == Len(steps) + 1
           assignment_group == assignment_group_of(directory_user, org_name)
           group_id == get_group(t, assignment_group)
           get_group_call(ok) == Call(org_name, "get_group", assignment_group, NoData, ok, n)
           log(raised) == Append(steps, Step(org_name, "update", directory_user,
                                             IF has_sign_user THEN <<sign_user>> ELSE <<>>, raised))
       IN IF ~should_sync(directory_user, org_name)
          THEN /\ steps' = log(FALSE)
               /\ loop_idx' = loop_idx + 1
               /\ UNCHANGED <<pc, target, calls, failures>>
          ELSE \E out \in UpdateOutcomes, user_roles \in resolve_new_roles(directory_user, admin_roles_get(org_name)) :
               IF out = "get_group" \/ ~has_group(t, assignment_group)
               THEN \* the group-id lookup fails: the error leaves run()
                    /\ calls' = Append(calls, get_group_call(FALSE))
                    /\ steps' = log(TRUE)
                    /\ pc' = "raised"
                    /\ failures' = failures + (IF out = "get_group" THEN 1 ELSE 0)
                    /\ UNCHANGED <<target, loop_idx>>
               ELSE IF creates_user(create_new_users, has_sign_user)
               THEN \* insert_new_users: an AssertionException is caught and logged
                    LET data == insert_data(directory_user, user_roles, group_id)
                        ok == out = "ok" /\ ~has_email(t, data.email)
                    IN /\ calls' = calls \o <<get_group_call(TRUE),
                                              Call(org_name, "insert_user", data.email, data, ok, n)>>
                       /\ target' = IF ok THEN [target EXCEPT ![org_name] = insert_user(@, data)]
                                    ELSE target
                       /\ steps' = log(FALSE)
                       /\ loop_idx' = loop_idx + 1
                       /\ failures' = failures + (IF out = "user_op" THEN 1 ELSE 0)
                       /\ UNCHANGED pc
               ELSE IF ~has_sign_user
               THEN /\ out = "ok"
                    /\ calls' = Append(calls, get_group_call(TRUE))
                    /\ steps' = log(FALSE)
                    /\ loop_idx' = loop_idx + 1
                    /\ UNCHANGED <<pc, target, failures>>
               ELSE IF no_updates_needed(sign_user, assignment_group, user_roles)
               THEN /\ out = "ok"
                    /\ calls' = Append(calls, get_group_call(TRUE))
                    /\ steps' = log(FALSE)
                    /\ loop_idx' = loop_idx + 1
                    /\ UNCHANGED <<pc, target, failures>>
               ELSE \* update_existing_users: 'except AssertionError' does not
                    \* catch the AssertionException of a failed update
                    LET data == update_data(sign_user, directory_user, group_id, user_roles)
                        ok == out = "ok"
                    IN /\ calls' = calls \o <<get_group_call(TRUE),
                                              Call(org_name, "update_user", sign_user.userId, data, ok, n)>>
                       /\ target' = IF ok THEN [target EXCEPT ![org_name] = update_user(@, sign_user.userId, data)]
                                    ELSE target
                       /\ steps' = log(~ok)
                       /\ pc' = IF ok THEN pc ELSE "raised"
                       /\ loop_idx' = IF ok THEN loop_idx + 1 ELSE loop_idx
                       /\ failures' = failures + (IF ok THEN 0 ELSE 1)
    /\ UNCHANGED <<cfg, directory_user_by_user_key, org_idx, new_groups, sign_users,
                   passes, target0, loaded, runs, prev_run>>

\* run(), lines 78-80: the create/update pass is over; sweep or next organization
UpdateDone ==
    /\ pc = "update_loop"
    /\ loop_idx > Len(directory_user_by_user_key)
    /\ passes' = [passes EXCEPT ![org_name].update_done = TRUE]
    /\ IF sweep_enabled(deactivate_sign_only_users)
       THEN pc' = "sweep_read" /\ UNCHANGED org_idx
       ELSE IF org_idx < Len(sign_orgs)
       THEN pc' = "sign_groups" /\ org_idx' = org_idx + 1
       ELSE pc' = "returned" /\ UNCHANGED org_idx
    /\ UNCHANGED <<cfg, directory_user_by_user_key, target, loop_idx, new_groups, sign_users,
                   calls, steps, target0, loaded, runs, failures, prev_run>>

\* deactivate_sign_users, line 291
SweepRead ==
    /\ pc = "sweep_read"
    /\ \E ok \in Outcomes :
        /\ calls' = Append(calls, Call(org_name, "get_users", <<>>, NoData, ok, 0))
        /\ IF ok
           THEN /\ sign_users' = sweep_roster(target[org_name], sign_users)
                /\ passes' = [passes EXCEPT ![org_name].sweep_read = <<sweep_roster(target[org_name], sign_users)>>]
                /\ loop_idx' = 1
                /\ pc' = "sweep_loop"
                /\ UNCHANGED failures
           ELSE /\ pc' = "raised"
                /\ failures' = failures + 1
                /\ UNCHANGED <<sign_users, passes, loop_idx>>
    /\ UNCHANGED <<cfg, directory_user_by_user_key, target, org_idx, new_groups,
                   steps, target0, loaded, runs, prev_run>>

\* deactivate_sign_users, lines 295-297, with deactivate_user: one Sign user
SweepUser ==
    /\ pc = "sweep_loop"
    /\ loop_idx <= Len(sign_users)
    /\ LET sign_user == sign_users[loop_idx].value
           n == Len(steps) + 1
       IN /\ steps' = Append(steps, Step(org_name, "sweep", sign_user, <<sign_user>>, FALSE))
          /\ loop_idx' = loop_idx + 1
          /\ IF is_sign_only(sign_user, director_users_emails(directory_user_by_user_key))
             THEN \E ok \in Outcomes :
                  \* an AssertionException of deactivate_user is caught and logged
                  /\ calls' = Append(calls, Call(org_name, "deactivate_user", sign_user.userId,
                                                 deactivation_data, ok, n))
                  /\ target' = IF ok
                               THEN [target EXCEPT ![org_name] =
                                        deactivate_user(@, sign_user.userId, deactivation_data)]
                               ELSE target
                  /\ failures' = failures + (IF ok THEN 0 ELSE 1)
             ELSE UNCHANGED <<calls, target, failures>>
    /\ UNCHANGED <<cfg, directory_user_by_user_key, pc, org_idx, new_groups, sign_users,
                   passes, target0, loaded, runs, prev_run>>

\* run(), line 73: the sweep is over; next organization or return
SweepDone ==
    /\ pc = "sweep_loop"
    /\ loop_idx > Len(sign_users)
    /\ passes' = [passes EXCEPT ![org_name].sweep_done = TRUE]
    /\ IF org_idx < Len(sign_orgs)
       THEN pc' = "sign_groups" /\ org_idx' = org_idx + 1
       ELSE pc' = "returned" /\ UNCHANGED org_idx
    /\ UNCHANGED <<cfg, directory_user_by_user_key, target, loop_idx, new_groups, sign_users,
                   calls, steps, target0, loaded, runs, failures, prev_run>>

Next ==
    \/ Run
    \/ SignGroups
    \/ CreateGroup
    \/ UpdateRead
    \/ UpdateUser
    \/ UpdateDone
    \/ SweepRead
    \/ SweepUser
    \/ SweepDone

Spec == Init /\ [][Next]_vars

\* ------------------------------------------------- get_user_key on its own
s_FederatedID == <<"F","e","d","e","r","a","t","e","d","I","d">>
s_guest       == <<"g","u","e","s","t">>
s_Bob_padded  == <<" ","B","o","b"," ">>
s_blank       == <<" "," ">>
s_X_padded    == <<" ","X">>

KeyIdTypes  == {None, federatedID, s_FederatedID, adobeID, s_guest}
KeyUsernames == {None, <<>>, s_blank, s_Bob_padded, e_A, u_bob}
KeyDomains  == {None, <<>>, s_X_padded, d_x}
KeyEmails   == {None, <<>>, e_B, u_bob}

InitKey ==
    /\ Init
    /\ ~test_mode /\ ~create_new_users /\ ~deactivate_sign_only_users
    /\ org_order = sign_orgs
    /\ target = CHOOSE t \in InitTargets : TRUE

\* one call of get_user_key, lines 212-238
GetUserKey ==
    /\ \E id_type \in KeyIdTypes, username \in KeyUsernames,
          domain \in KeyDomains, email \in KeyEmails :
          key_probe' = [id_type |-> id_type, username |-> username, domain |-> domain,
                        email |-> email, called |-> TRUE,
                        key |-> get_user_key(id_type, username, domain, email)]
    /\ UNCHANGED <<test_mode, create_new_users, deactivate_sign_only_users,
                   directory_user_by_user_key, target, pc, org_idx, loop_idx, new_groups,
                   sign_users, calls, steps, passes, target0, loaded, runs, failures,
                   prev_run, org_order>>

NextKey == GetUserKey

SpecKey == InitKey /\ [][NextKey]_vars

TypeOK == pc \in {"idle", "returned", "raised", "sign_groups", "create_group",
                  "update_read", "update_loop", "sweep_read", "sweep_loop"}

\* ------------------------------------------------------ reading the history
CallIdx(org, op) == {j \in 1..Len(calls) : calls[j].org = org /\ calls[j].op = op}
StepCalls(i, op) == {j \in 1..Len(calls) : calls[j].step = i /\ calls[j].op = op}
UpdateSteps == {i \in 1..Len(steps) : steps[i].phase = "update"}
MutatingOps == {"create_group", "insert_user", "update_user", "deactivate_user"}
DirectoryUsers == {directory_user_by_user_key[i].value : i \in 1..Len(directory_user_by_user_key)}

\* ---------------------------------------------------------------------- C1
\* C1: with the sweep enabled, the sweep of an organization issues a
\* deactivate call with status INACTIVE for exactly the users of the roster it
\* read whose lower-cased email is not a lower-cased directory email, once
\* each, and for no other user; with the sweep disabled no deactivate call is
\* issued at all.
DirectoryEmailsLower == {lower(u.email) : u \in DirectoryUsers}

SweepExpected(org) ==
    LET roster == passes[org].sweep_read[1]
    IN {roster[i].value.userId :
          i \in {k \in 1..Len(roster) : lower(roster[k].value.email) \notin DirectoryEmailsLower}}

C1_SweepExact ==
    /\ ~deactivate_sign_only_users =>
          \A org \in OrgNames : CallIdx(org, "deactivate_user") = {}
    /\ \A org \in OrgNames :
          LET issued == CallIdx(org, "deactivate_user")
          IN /\ issued # {} => passes[org].sweep_read # <<>>
             /\ passes[org].sweep_read # <<>> =>
                  /\ {calls[j].id : j \in issued} \subseteq SweepExpected(org)
                  /\ \A j, k \in issued : calls[j].id = calls[k].id => j = k
                  /\ \A j \in issued : calls[j].data = [userStatus |-> "INACTIVE"]
                  /\ passes[org].sweep_done =>
                        {calls[j].id : j \in issued} = SweepExpected(org)

\* a finished sweep of org1 that deactivated a user and spared one whose email
\* matches a directory email only after lower-casing
C1_Witness ==
    /\ passes["org1"].sweep_done
    /\ CallIdx("org1", "deactivate_user") # {}
    /\ LET roster == passes["org1"].sweep_read[1]
       IN \E i \in 1..Len(roster) :
            /\ roster[i].value.email \notin {u.email : u \in DirectoryUsers}
            /\ lower(roster[i].value.email) \in DirectoryEmailsLower
            /\ roster[i].value.userId \notin {calls[j].id : j \in CallIdx("org1", "deactivate_user")}

\* ---------------------------------------------------------------------- C2
\* the passes of the create/update loop that reached the decision: the user
\* passed should_sync and the group-id lookup answered
Decided(i) ==
    /\ steps[i].phase = "update"
    /\ should_sync(steps[i].user, steps[i].org)
    /\ \E j \in StepCalls(i, "get_group") : calls[j].ok

RoleSetOf(roles) == IF roles.is_str THEN {roles.str} ELSE SeqToSet(roles.list)

ResolvedRoleSet(user, org) ==
    LET roles == resolved_role_set(user, admin_roles_get(org))
    IN IF roles = {} THEN {"NORMAL_USER"} ELSE roles

\* C2: for an in-scope directory user with an existing target user, no update
\* call is issued when the target user's lower-cased group is the assignment
\* group and its roles, as a set (a single string being a one-element set),
\* are the resolved roles; otherwise exactly one update call is issued, with
\* the resolved group id and the resolved roles.
C2_UpdateIffDiff ==
    \A i \in 1..Len(steps) :
        (Decided(i) /\ steps[i].sign_user # <<>>) =>
            LET su == steps[i].sign_user[1]
                ag == assignment_group_of(steps[i].user, steps[i].org)
                rs == ResolvedRoleSet(steps[i].user, steps[i].org)
                same == lower(su.group) = ag /\ RoleSetOf(su.roles) = rs
                upd == StepCalls(i, "update_user")
            IN /\ StepCalls(i, "insert_user") = {}
               /\ same => upd = {}
               /\ ~same =>
                    /\ Cardinality(upd) = 1
                    /\ \A j \in upd :
                         /\ calls[j].id = su.userId
                         /\ calls[j].data.groupId = get_group(target0[steps[i].org], ag)
                         /\ SeqToSet(calls[j].data.roles) = rs
                         /\ Len(calls[j].data.roles) = Cardinality(rs)

\* a skipped update of a target user whose group differs from the assignment
\* group in case only and whose role list is in another order than sorted
C2_Witness ==
    \E i \in 1..Len(steps) :
        /\ Decided(i)
        /\ steps[i].sign_user # <<>>
        /\ StepCalls(i, "update_user") = {}
        /\ steps[i].sign_user[1].group # assignment_group_of(steps[i].user, steps[i].org)
        /\ ~steps[i].sign_user[1].roles.is_str
        /\ steps[i].sign_user[1].roles.list # sorted(steps[i].sign_user[1].roles.list)

LowerSet(S) == {lower(g) : g \in S}

\* the scope of the claim: group names compared case-insensitively
InScopeAnyCase(user, org) ==
    /\ (LowerSet(user.groups) \cap
        {lower(g.group_name) : g \in {h \in SeqToSet(cfg_entitlement_groups) : h.umapi_name = org}}) # {}
    /\ user.type \in SeqToSet(cfg_identity_types)

\* C4: a directory user gets the create/update decision of an organization
\* (the group-id lookup and whatever insert or update follows) if and only if
\* their groups intersect the organization's entitlement groups, compared
\* case-insensitively, and their identity type is in the allow-list; any other
\* user gets no insert and no update call.
C4_ScopeAnyCase ==
    \A i \in UpdateSteps :
        LET made == \E j \in 1..Len(calls) : calls[j].step = i
        IN /\ InScopeAnyCase(steps[i].user, steps[i].org) <=> made
           /\ ~InScopeAnyCase(steps[i].user, steps[i].org) =>
                 StepCalls(i, "insert_user") \cup StepCalls(i, "update_user") = {}

\* ---------------------------------------------------------------------- C5
\* the first candidate, in configured order, that is one of the given names
RECURSIVE FirstCandidate(_, _)
FirstCandidate(candidates, names) ==
    IF candidates = <<>> THEN DEFAULT_GROUP_NAME
    ELSE IF Head(candidates) \in names THEN Head(candidates)
    ELSE FirstCandidate(Tail(candidates), names)

\* C5: the assignment group of an in-scope directory user is the first
\* candidate of the organization, in configured order, that is among the
\* user's directory groups compared case-insensitively, and the default group
\* name if and only if no candidate is.
C5_FirstCandidateAnyCase ==
    \A i \in UpdateSteps :
        \A j \in StepCalls(i, "get_group") :
            /\ calls[j].id = FirstCandidate(user_groups[steps[i].org], LowerSet(steps[i].user.groups))
            /\ calls[j].id = DEFAULT_GROUP_NAME <=>
                  (SeqToSet(user_groups[steps[i].org]) \cap LowerSet(steps[i].user.groups)) = {}

\* ---------------------------------------------------------------------- C6
\* the roles the configuration maps to a user's groups in an organization
ConfiguredRoles(user, org) ==
    LET names == LowerSet(user.groups)
    IN {cfg_admin_roles[m].sign_role :
          m \in {k \in 1..Len(cfg_admin_roles) :
                   \E g \in SeqToSet(cfg_admin_roles[k].adobe_groups) :
                       /\ g.umapi_name = org
                       /\ lower(g.group_name) \in names}}

\* C6: for every directory user and organization, every list
\* resolve_new_roles can return holds, once each, exactly the roles mapped to
\* the lower-cased names of the user's groups, or the single role NORMAL_USER
\* when no group is mapped; it is never empty.
C6_RolesUnion ==
    \A u \in DirectoryUsers, org \in OrgNames :
        LET expected == ConfiguredRoles(u, org)
        IN \A roles \in resolve_new_roles(u, admin_roles_get(org)) :
            /\ roles # <<>>
            /\ \A a, b \in 1..Len(roles) : roles[a] = roles[b] => a = b
            /\ expected # {} => SeqToSet(roles) = expected
            /\ expected = {} => roles = <<"NORMAL_USER">>

\* the directory holds a user with two mapped groups that share a role, one of
\* them not in lower case, and a user with no mapped group, and an insert or
\* update carried resolved roles
C6_Witness ==
    /\ \E u \in DirectoryUsers :
         /\ \E g, h \in u.groups :
              /\ g # h /\ g # lower(g)
              /\ lower(g) \in DOMAIN admin_roles["org1"]
              /\ lower(h) \in DOMAIN admin_roles["org1"]
              /\ admin_roles["org1"][lower(g)] \cap admin_roles["org1"][lower(h)] # {}
         /\ \E i \in UpdateSteps :
              /\ steps[i].user = u
              /\ \E j \in StepCalls(i, "insert_user") \cup StepCalls(i, "update_user") :
                    SeqToSet(calls[j].data.roles) = ConfiguredRoles(u, steps[i].org)
    /\ \E u \in DirectoryUsers : ConfiguredRoles(u, "org2") = {}

\* ---------------------------------------------------------------------- C7
\* C7: in test mode run() issues no connector call at all, so none of
\* create_group, insert_user, update_user, deactivate_user, and every
\* organization's account is as it was before the run, whatever the directory
\* returns and whatever the other flags are.
C7_TestModeNoCalls ==
    test_mode =>
        /\ \A j \in 1..Len(calls) : calls[j].op \notin MutatingOps
        /\ calls = <<>>
        /\ target = target0
        /\ pc \in {"idle", "returned"}

\* a run in test mode has returned, with both other flags set
C7_Witness ==
    /\ test_mode
    /\ pc = "returned"
    /\ runs > 0
    /\ loaded # <<>>
    /\ create_new_users
    /\ deactivate_sign_only_users

\* ---------------------------------------------------------------------- C8
UserOps == {"insert_user", "update_user", "deactivate_user"}

\* C8: a failed insert, update or deactivate call is caught: the pass of the
\* loop that issued it does not raise, and run() is not left by the error.
C8_UserFailureCaught ==
    \A j \in 1..Len(calls) :
        (calls[j].op \in UserOps /\ ~calls[j].ok) =>
            /\ ~steps[calls[j].step].raised
            /\ j = Len(calls) => pc # "raised"

\* ---------------------------------------------------------------------- C9
\* C9: when run() is over and a connector call failed while an organization
\* was processed, every configured organization has still been provisioned,
\* has had its create/update pass and, with the sweep enabled, its sweep.
C9_OrgsIndependent ==
    (pc \in {"returned", "raised"} /\ \E j \in FailedCalls : calls[j].org \in OrgNames) =>
        \A org \in OrgNames :
            /\ passes[org].provisioned
            /\ passes[org].update_done
            /\ deactivate_sign_only_users => passes[org].sweep_done

\* --------------------------------------------------------------------- C10
\* C10: a run() that follows a completed run() over the same directory
\* snapshot, no connector call failing in either, issues no insert and no
\* update call and leaves the users of every organization as they were.
C10_SecondRunIdle ==
    (prev_run.clean /\ prev_run.loaded = loaded /\ failures = 0 /\ FailedCalls = {}) =>
        /\ \A j \in 1..Len(calls) : calls[j].op \notin {"insert_user", "update_user"}
        /\ \A org \in OrgNames : target[org].users = target0[org].users

\* --------------------------------------------------------------------- C11
\* the users of this run's directory read that have a user key
LoadedValid == {u \in SeqToSet(loaded) : truthy(get_directory_user_key(u))}

\* C11: a run() works on the directory users of its own read only: every pass
\* of the create/update loop is for a user of this run's snapshot, and a
\* finished sweep has issued a deactivate call for every user of its roster
\* whose lower-cased email is not that of a user of this run's snapshot,
\* whatever an earlier run() of the same engine read.
C11_OwnSnapshotOnly ==
    /\ \A i \in UpdateSteps : steps[i].user \in LoadedValid
    /\ \A org \in OrgNames :
          passes[org].sweep_done =>
             LET roster == passes[org].sweep_read[1]
             IN \A k \in 1..Len(roster) :
                   lower(roster[k].value.email) \notin {lower(u.email) : u \in LoadedValid} =>
                      \E j \in CallIdx(org, "deactivate_user") : calls[j].id = roster[k].value.userId

\* --------------------------------------------------------------------- C13
SweepSteps == {i \in 1..Len(steps) : steps[i].phase = "sweep"}

\* C13: within one run() no user of an organization gets both an insert call
\* and a deactivate call: no deactivate call is for the email of an insert
\* call of the same organization.
C13_NoInsertThenDeactivate ==
    \A j, k \in 1..Len(calls) :
        (/\ calls[j].op = "insert_user"
         /\ calls[k].op = "deactivate_user"
         /\ calls[j].org = calls[k].org) =>
            steps[calls[k].step].user.email # calls[j].data.email

\* a finished sweep that deactivated a user and met a user inserted in the
\* same run, whose email is not in lower case
C13_Witness ==
    \E org \in OrgNames :
        /\ passes[org].sweep_done
        /\ CallIdx(org, "deactivate_user") # {}
        /\ \E j \in CallIdx(org, "insert_user") :
              /\ calls[j].ok
              /\ calls[j].data.email # lower(calls[j].data.email)
              /\ \E i \in SweepSteps :
                    steps[i].org = org /\ steps[i].user.email = calls[j].data.email

\* --------------------------------------------------------------------- C14
\* C14: for each organization the create_group calls come before its insert
\* and update calls, and these before its deactivate calls; and the sweep
\* decides on a listing read after the create/update pass: the roster of the
\* sweep holds every user the pass inserted and the group and roles every
\* update of the pass has set.
C14_PassOrder ==
    \A org \in OrgNames :
        /\ \A j, k \in 1..Len(calls) :
              (calls[j].org = org /\ calls[k].org = org) =>
                 /\ (calls[j].op = "create_group" /\ calls[k].op \in {"insert_user", "update_user"})
                       => j < k
                 /\ (calls[j].op \in {"insert_user", "update_user"} /\ calls[k].op = "deactivate_user")
                       => j < k
        /\ passes[org].sweep_read # <<>> =>
              LET roster == passes[org].sweep_read[1]
              IN /\ passes[org].update_done
                 /\ \A j \in CallIdx(org, "insert_user") :
                       calls[j].ok => calls[j].data.email \in dict_keys(roster)
                 /\ \A j \in CallIdx(org, "update_user") :
                       calls[j].ok =>
                          \E k \in 1..Len(roster) :
                             /\ roster[k].value.userId = calls[j].id
                             /\ \/ roster[k].value.group = calls[j].data.groupId.gid
                                \/ \E m \in CallIdx(org, "update_user") :
                                      m > j /\ calls[m].id = calls[j].id

\* an organization got a new group, then an insert, then a sweep whose roster
\* holds the inserted user, then a deactivate call
C14_Witness ==
    \E org \in OrgNames :
        /\ CallIdx(org, "create_group") # {}
        /\ CallIdx(org, "deactivate_user") # {}
        /\ \E j \in CallIdx(org, "insert_user") :
              /\ calls[j].ok
              /\ calls[j].data.email \in dict_keys(passes[org].sweep_read[1])
              /\ calls[j].data.email \notin dict_keys(passes[org].update_read[1])

\* --------------------------------------------------------------------- C15
\* C15: no step of the engine makes an inactive target user active: users are
\* only added, as active, and a user that is inactive stays inactive, also
\* through an update issued for it.
C15_NoReactivation ==
    [][\A org \in OrgNames :
          /\ Len(target'[org].users) >= Len(target[org].users)
          /\ \A i \in 1..Len(target[org].users) :
                /\ target'[org].users[i].userId = target[org].users[i].userId
                /\ target[org].users[i].userStatus = "INACTIVE" =>
                      target'[org].users[i].userStatus = "INACTIVE"
          /\ \A i \in (Len(target[org].users) + 1)..Len(target'[org].users) :
                target'[org].users[i].userStatus = "ACTIVE"]_vars

\* an update went through for an inactive target user, who is still inactive
C15_Witness ==
    \E j \in 1..Len(calls) :
        /\ calls[j].op = "update_user"
        /\ calls[j].ok
        /\ steps[calls[j].step].sign_user[1].userStatus = "INACTIVE"
        /\ \E i \in 1..Len(target[calls[j].org].users) :
              /\ target[calls[j].org].users[i].userId = calls[j].id
              /\ target[calls[j].org].users[i].userStatus = "INACTIVE"
              /\ target[calls[j].org].users[i].group = calls[j].data.groupId.gid

\* --------------------------------------------------------------------- C16
\* C16: the profile of an update call has the email, first name and last name
\* of the target record, and every target user that existed when the run
\* began has the email, first name and last name it had then.
C16_UpdateKeepsNames ==
    /\ \A j \in 1..Len(calls) :
          calls[j].op = "update_user" =>
             LET su == steps[calls[j].step].sign_user[1]
             IN /\ calls[j].data.email = su.email
                /\ calls[j].data.firstName = su.firstName
                /\ calls[j].data.lastName = su.lastName
    /\ \A org \in OrgNames :
          \A i \in 1..Len(target0[org].users) :
             /\ target[org].users[i].email = target0[org].users[i].email
             /\ target[org].users[i].firstName = target0[org].users[i].firstName
             /\ target[org].users[i].lastName = target0[org].users[i].lastName

\* an update went through for a user whose directory record has another first
\* name, which the target user did not take
C16_Witness ==
    \E j \in 1..Len(calls) :
        /\ calls[j].op = "update_user"
        /\ calls[j].ok
        /\ steps[calls[j].step].user.firstname # steps[calls[j].step].sign_user[1].firstName
        /\ \E i \in 1..Len(target[calls[j].org].users) :
              /\ target[calls[j].org].users[i].userId = calls[j].id
              /\ target[calls[j].org].users[i].firstName # steps[calls[j].step].user.firstname

\* --------------------------------------------------------------------- C17
DirectoryReadFailed ==
    /\ calls # <<>>
    /\ calls[1].op = "load_users_and_groups"
    /\ ~calls[1].ok

\* C17: when the directory read of a run fails, run() is left with the error
\* and nothing else has happened: no connector call, no pass over any
\* organization, every account as it was.
C17_ReadFailureAborts ==
    DirectoryReadFailed =>
        /\ pc = "raised"
        /\ Len(calls) = 1
        /\ steps = <<>>
        /\ passes = NoPasses
        /\ target = target0

\* the directory read of a run failed, with creation and the sweep enabled
\* and users in the mapping from an earlier run
C17_Witness ==
    /\ DirectoryReadFailed
    /\ create_new_users
    /\ deactivate_sign_only_users
    /\ directory_user_by_user_key # <<>>

\* --------------------------------------------------------------------- C18
LoadedInvalid == {u \in SeqToSet(loaded) : ~truthy(get_directory_user_key(u))}

\* C18: a directory user with no user key is not in the directory mapping,
\* gets no pass of the create/update loop, hence no insert and no update call,
\* and does not protect a target user: a finished sweep has issued a
\* deactivate call for every user of its roster with that user's lower-cased
\* email, unless a user of the mapping has that lower-cased email; the mapping
\* of a first run holds exactly the users of the read that have a key.
C18_InvalidKeyExcluded ==
    (calls # <<>> /\ calls[1].ok) =>
        /\ \A u \in LoadedInvalid :
              /\ u \notin DirectoryUsers
              /\ \A i \in UpdateSteps : steps[i].user # u
              /\ \A org \in OrgNames :
                    passes[org].sweep_done =>
                       LET roster == passes[org].sweep_read[1]
                       IN \A k \in 1..Len(roster) :
                             (/\ lower(roster[k].value.email) = lower(u.email)
                              /\ lower(u.email) \notin DirectoryEmailsLower) =>
                                 \E j \in CallIdx(org, "deactivate_user") :
                                    calls[j].id = roster[k].value.userId
        /\ prev_run.ended = "none" => DirectoryUsers = LoadedValid

\* a finished sweep deactivated the target user that has the email of a
\* directory user without a key, who passes should_sync for the organization
C18_Witness ==
    \E u \in LoadedInvalid, org \in OrgNames :
        /\ should_sync(u, org)
        /\ passes[org].sweep_done
        /\ \E j \in CallIdx(org, "deactivate_user") :
              steps[calls[j].step].user.email = u.email

\* --------------------------------------------------------------------- C19
\* the candidate groups the configuration gives an organization
ConfiguredCandidates(org) ==
    {lower(g.group_name) : g \in {h \in SeqToSet(cfg_user_groups) : h.umapi_name = org}}

\* C19: for each organization run() requests the creation of exactly the
\* configured candidate groups that are not among the group names the account
\* listed, once each and before the users of the organization are read; it
\* requests no group that was listed, and the groups of an account only grow,
\* by the groups created.
C19_ProvisioningAdditive ==
    \A org \in OrgNames :
        LET issued == CallIdx(org, "create_group")
            created == {calls[j].id : j \in issued}
        IN /\ issued # {} => passes[org].groups_read # <<>>
           /\ passes[org].groups_read # <<>> =>
                 LET existing == passes[org].groups_read[1]
                 IN /\ created \subseteq (ConfiguredCandidates(org) \ existing)
                    /\ \A j, k \in issued : calls[j].id = calls[k].id => j = k
                    /\ passes[org].provisioned =>
                          created = ConfiguredCandidates(org) \ existing
           /\ \A j \in issued : \A k \in CallIdx(org, "get_users") : j < k
           /\ passes[org].update_read # <<>> => passes[org].provisioned
           /\ target[org].groups =
                 target0[org].groups \cup {calls[j].id : j \in {k \in issued : calls[k].ok}}

\* an organization was provisioned with one candidate created and another,
\* already listed, left alone
C19_Witness ==
    \E org \in OrgNames :
        /\ passes[org].provisioned
        /\ passes[org].update_read # <<>>
        /\ CallIdx(org, "create_group") # {}
        /\ ConfiguredCandidates(org) \cap passes[org].groups_read[1] # {}

\* --------------------------------------------------------------------- C20
\* the entitlement groups the configuration gives an organization
ConfiguredEntitlements(org) ==
    {lower(g.group_name) : g \in {h \in SeqToSet(cfg_entitlement_groups) : h.umapi_name = org}}

\* the calls of an organization follow from that organization's own tables
OwnTables ==
    \A j \in 1..Len(calls) :
        calls[j].org \in OrgNames /\ calls[j].step > 0 /\ steps[calls[j].step].phase = "update" =>
            LET u == steps[calls[j].step].user
                org == calls[j].org
            IN /\ steps[calls[j].step].org = org
               /\ u.groups \cap ConfiguredEntitlements(org) # {}
               /\ calls[j].op = "get_group" =>
                     calls[j].id \in ConfiguredCandidates(org) \cup {DEFAULT_GROUP_NAME}
               /\ calls[j].op \in {"insert_user", "update_user"} =>
                     /\ calls[j].data.groupId.gid \in ConfiguredCandidates(org) \cup {DEFAULT_GROUP_NAME}
                     /\ SeqToSet(calls[j].data.roles) =
                           (IF ConfiguredRoles(u, org) = {} THEN {"NORMAL_USER"}
                            ELSE ConfiguredRoles(u, org))

\* whatever its place in the order, an organization is processed from the
\* state its account had when the run began
OwnStart ==
    \A org \in OrgNames :
        /\ passes[org].groups_read # <<>> => passes[org].groups_read[1] = target0[org].groups
        /\ passes[org].update_read # <<>> =>
              passes[org].update_read[1] = get_users(target0[org])
        /\ \A j \in 1..Len(calls) :
              (calls[j].org \in OrgNames /\ calls[j].org # org_name) =>
                 (passes[calls[j].org].update_done \/ pc \in {"returned", "raised"})

\* an organization none of whose own calls failed is processed in full,
\* wherever it stands in the order
OwnOutcome ==
    (pc \in {"returned", "raised"} /\ calls # <<>> /\ calls[1].ok) =>
        \A org \in OrgNames :
            (\A j \in FailedCalls : calls[j].org # org) =>
                /\ passes[org].update_done
                /\ deactivate_sign_only_users => passes[org].sweep_done

\* C20: organizations are data-independent: the calls made for an
\* organization follow from its own candidate, entitlement and role tables,
\* its processing starts from the state its own account had when the run
\* began, and what the run does to an organization is the same for either
\* order of the organizations, depending on that organization's connector
\* alone.
C20_OrderIndependent == OwnTables /\ OwnStart /\ OwnOutcome

\* the part of C20 that is about reads and writes only
C20_OwnTablesAndStart == OwnTables /\ OwnStart

\* --------------------------------------------------------------------- C12
\* the name get_user_key uses: the normalized username, or the normalized
\* email when the username is absent or blank
KeyName(p) ==
    IF truthy(normalize_string(p.username)) THEN normalize_string(p.username)
    ELSE IF truthy(p.email) THEN normalize_string(p.email)
    ELSE None

\* the text of a key after its second comma
RECURSIVE AfterCommas(_, _)
AfterCommas(key, n) ==
    IF n = 0 THEN key
    ELSE IF key = <<>> THEN <<>>
    ELSE AfterCommas(Tail(key), IF Head(key) = "," THEN n - 1 ELSE n)

\* C12: get_user_key returns None when the identity type does not parse, when
\* neither a username nor an email is there, and when the name has no '@' and
\* no domain is there; when the name has an '@' the domain part of the key is
\* empty whatever domain was passed; in every other case the key is the
\* identity type, the normalized name and the normalized domain, joined by
\* commas.
C12_UserKey ==
    key_probe.called =>
        LET p == key_probe
            id_type == parse_identity_type(p.id_type)
            name == KeyName(p)
            domain == normalize_string(p.domain)
            invalid == \/ ~truthy(id_type)
                       \/ ~truthy(name)
                       \/ (~contains(name, "@") /\ ~truthy(domain))
        IN /\ invalid <=> p.key = None
           /\ (~invalid /\ contains(name, "@")) =>
                 /\ AfterCommas(p.key, 2) = <<>>
                 /\ p.key = id_type \o <<",">> \o name \o <<",">>
           /\ (~invalid /\ ~contains(name, "@")) =>
                 /\ AfterCommas(p.key, 2) = domain
                 /\ p.key = id_type \o <<",">> \o name \o <<",">> \o domain

\* a key for an email-shaped name taken from the email, a domain being passed
C12_Witness ==
    /\ key_probe.called
    /\ ~truthy(normalize_string(key_probe.username))
    /\ truthy(key_probe.email)
    /\ truthy(normalize_string(key_probe.domain))
    /\ key_probe.key # None
    /\ AfterCommas(key_probe.key, 2) = <<>>

====
